---- MODULE Spec2Model ----
(***************************************************************************)
(* Swasthya backend (backend/main.py): request handlers over a Qdrant      *)
(* collection.  Text is modelled as sequences of one-character strings so  *)
(* that strip(), lower(), endswith(), slicing, f-string formatting and     *)
(* string ordering are computed the way the code computes them.            *)
(***************************************************************************)
EXTENDS Integers, Sequences, FiniteSets, TLC

VARIABLES store, free, vit, resp

vars == <<store, free, vit, resp>>

(***************************************************************************)
(* Bounds of the model                                                     *)
(***************************************************************************)
MaxIds == 2           \* uuids a run on a new collection can draw
MaxVitalIds == 3      \* uuids a run of SpecVitals can draw
MaxBigIds == 1        \* uuids a run on the large collection can draw
MinYear == 2023       \* years of the dates of SpecAge
MaxYear == 2024
EmbedRange == 7       \* number of distinct embedding values

(***************************************************************************)
(* Program constants                                                       *)
(***************************************************************************)
TREND_LIMIT == 50
QUERY_LIMIT == 5
LIST_LIMIT == 100
PREVIEW_LEN == 200

None == "None"

(***************************************************************************)
(* Characters and strings                                                  *)
(***************************************************************************)
AsciiOrder ==
  << "\t", "\n", " ", "-", ".", "/",
     "0", "1", "2", "3", "4", "5", "6", "7", "8", "9", ":",
     "A", "B", "C", "D", "E", "F", "G", "H", "I", "J", "K", "L", "M",
     "N", "O", "P", "Q", "R", "S", "T", "U", "V", "W", "X", "Y", "Z",
     "a", "b", "c", "d", "e", "f", "g", "h", "i", "j", "k", "l", "m",
     "n", "o", "p", "q", "r", "s", "t", "u", "v", "w", "x", "y", "z" >>

Chars == {AsciiOrder[i] : i \in 1..Len(AsciiOrder)}

\* code-point order of the characters (what Python's str comparison uses)
Ord == [c \in Chars |-> CHOOSE i \in 1..Len(AsciiOrder) : AsciiOrder[i] = c]

Digits == <<"0", "1", "2", "3", "4", "5", "6", "7", "8", "9">>

IsDigit(c) == \E i \in 1..10 : Digits[i] = c

DigitVal(c) == (CHOOSE i \in 1..10 : Digits[i] = c) - 1

UpperCase == <<"A", "B", "C", "D", "E", "F", "G", "H", "I", "J", "K", "L", "M",
               "N", "O", "P", "Q", "R", "S", "T", "U", "V", "W", "X", "Y", "Z">>

LowerCase == <<"a", "b", "c", "d", "e", "f", "g", "h", "i", "j", "k", "l", "m",
               "n", "o", "p", "q", "r", "s", "t", "u", "v", "w", "x", "y", "z">>

LowerChar(c) ==
  IF \E i \in 1..26 : UpperCase[i] = c
    THEN LowerCase[CHOOSE i \in 1..26 : UpperCase[i] = c]
    ELSE c

\* str.lower()
Lower(s) == [i \in 1..Len(s) |-> LowerChar(s[i])]

\* str.endswith(suffix)
EndsWith(s, suf) ==
  /\ Len(suf) <= Len(s)
  /\ SubSeq(s, Len(s) - Len(suf) + 1, Len(s)) = suf

IsSpace(c) == c \in {" ", "\t", "\n"}

RECURSIVE LStrip(_)
LStrip(s) ==
  IF s = <<>> THEN <<>>
  ELSE IF IsSpace(Head(s)) THEN LStrip(Tail(s)) ELSE s

RECURSIVE RStrip(_)
RStrip(s) ==
  IF s = <<>> THEN <<>>
  ELSE IF IsSpace(s[Len(s)]) THEN RStrip(SubSeq(s, 1, Len(s) - 1)) ELSE s

\* str.strip()
Strip(s) == RStrip(LStrip(s))

\* s[:n]
Slice(s, n) == SubSeq(s, 1, IF Len(s) < n THEN Len(s) ELSE n)

\* Python's a < b on str
RECURSIVE StrLess(_, _)
StrLess(a, b) ==
  IF b = <<>> THEN FALSE
  ELSE IF a = <<>> THEN TRUE
  ELSE IF Ord[Head(a)] < Ord[Head(b)] THEN TRUE
  ELSE IF Ord[Head(a)] > Ord[Head(b)] THEN FALSE
  ELSE StrLess(Tail(a), Tail(b))

RECURSIVE NatStr(_)
NatStr(n) ==
  IF n < 10 THEN <<Digits[n + 1]>>
  ELSE NatStr(n \div 10) \o <<Digits[(n % 10) + 1]>>

\* str(int), as an f-string field
IntStr(n) == IF n < 0 THEN <<"-">> \o NatStr(-n) ELSE NatStr(n)

\* str(float) for the non-negative one-decimal floats of the model, held in tenths
FloatStr(x) == NatStr(x \div 10) \o <<".">> \o NatStr(x % 10)

Pad2(n) == IF n < 10 THEN <<"0">> \o NatStr(n) ELSE NatStr(n)

Pad4(n) ==
  IF n < 10 THEN <<"0", "0", "0">> \o NatStr(n)
  ELSE IF n < 100 THEN <<"0", "0">> \o NatStr(n)
  ELSE IF n < 1000 THEN <<"0">> \o NatStr(n)
  ELSE NatStr(n)

(***************************************************************************)
(* Dates                                                                   *)
(***************************************************************************)
IsLeap(y) == (y % 4 = 0 /\ y % 100 # 0) \/ y % 400 = 0

DaysInMonth(y, m) ==
  IF m = 2 THEN (IF IsLeap(y) THEN 29 ELSE 28)
  ELSE IF m \in {4, 6, 9, 11} THEN 30 ELSE 31

\* date.isoformat()
IsoFormat(d) == Pad4(d.year) \o <<"-">> \o Pad2(d.month) \o <<"-">> \o Pad2(d.day)

\* datetime.isoformat() of a datetime on the full hour
DateTimeIso(t) == IsoFormat(t) \o <<"T">> \o Pad2(t.hour) \o <<":", "0", "0", ":", "0", "0">>

Num2(s, i) == 10 * DigitVal(s[i]) + DigitVal(s[i + 1])

Num4(s, i) == 100 * Num2(s, i) + Num2(s, i + 2)

\* datetime.fromisoformat(s).date() for YYYY-MM-DD input; ok = FALSE is ValueError
FromIsoFormat(s) ==
  IF /\ Len(s) = 10
     /\ \A i \in {1, 2, 3, 4, 6, 7, 9, 10} : IsDigit(s[i])
     /\ s[5] = "-" /\ s[8] = "-"
    THEN LET y == Num4(s, 1)
             m == Num2(s, 6)
             d == Num2(s, 9)
         IN IF y >= 1 /\ m \in 1..12 /\ d >= 1 /\ d <= DaysInMonth(y, m)
              THEN [ok |-> TRUE, year |-> y, month |-> m, day |-> d]
              ELSE [ok |-> FALSE, year |-> 0, month |-> 0, day |-> 0]
    ELSE [ok |-> FALSE, year |-> 0, month |-> 0, day |-> 0]

\* a variant that counts completed months: one less when the day of the month
\* of the vaccination is before that of the birth
AgeMonthsCompleted(dob_date, vac_date) ==
  (vac_date.year - dob_date.year) * 12 + (vac_date.month - dob_date.month)
    - (IF vac_date.day < dob_date.day THEN 1 ELSE 0)

AgeMonths(dob_date, vac_date) ==
  (vac_date.year - dob_date.year) * 12 + (vac_date.month - dob_date.month)

(***************************************************************************)
(* Collaborators: embedding model and vector store                         *)
(***************************************************************************)
\* model.encode(text): an opaque deterministic function of the text
Embed(text) == Len(text) % EmbedRange

\* cosine similarity, higher is closer
Score(qv, v) == IF qv < v THEN qv - v ELSE v - qv

Get(payload, key) == IF key \in DOMAIN payload THEN payload[key] ELSE None

\* client.upsert(points=[{id, vector, payload}]): writes the point under its id
Upsert(st, id, vector, payload) ==
  [i \in DOMAIN st \cup {id} |->
     IF i = id THEN [vector |-> vector, payload |-> payload] ELSE st[i]]

\* a variant whose identifiers can repeat one already in the collection
Uuid4Repeating == free \cup DOMAIN store

\* str(uuid.uuid4()): an identifier no point of the collection carries
Uuid4 == free

IdSeq == [i \in 1..(2 * LIST_LIMIT + 2 + MaxIds + MaxVitalIds) |-> i]

\* the ids of a set of points in the order the store scans them (by id)
InIdOrder(ids) == LET Member(i) == i \in ids IN SelectSeq(IdSeq, Member)

Point(st, id) == [id |-> id, payload |-> st[id].payload]

\* client.scroll(limit=n): the first n points, no filter
Scroll(st, limit) ==
  LET ordered == InIdOrder(DOMAIN st)
  IN [i \in 1..(IF Len(ordered) < limit THEN Len(ordered) ELSE limit) |->
        Point(st, ordered[i])] \o <<>>

IsWeight(payload) ==
  /\ "type" \in DOMAIN payload /\ payload["type"] = "vitals"
  /\ "metric" \in DOMAIN payload /\ payload["metric"] = "weight"

\* client.scroll(scroll_filter={type = vitals, metric = weight}, limit=n)
ScrollWeight(st, limit) ==
  LET ordered == InIdOrder({id \in DOMAIN st : IsWeight(st[id].payload)})
  IN [i \in 1..(IF Len(ordered) < limit THEN Len(ordered) ELSE limit) |->
        Point(st, ordered[i])] \o <<>>

\* the ids of the k points ranked first: better score first, and among equal
\* scores by id ascending (tie = 1) or descending (tie = -1); the order among
\* equal scores is the store's choice
RECURSIVE TopK(_, _, _, _, _)
TopK(st, qv, tie, ids, k) ==
  IF k = 0 \/ ids = {} THEN <<>>
  ELSE LET scores == {Score(qv, st[x].vector) : x \in ids}
           best == CHOOSE s \in scores : \A t \in scores : t <= s
           tied == InIdOrder({x \in ids : Score(qv, st[x].vector) = best})
           a == IF tie = 1 THEN tied[1] ELSE tied[Len(tied)]
       IN <<a>> \o TopK(st, qv, tie, ids \ {a}, k - 1)

\* client.query_points(query=qv, with_payload=True, limit=n).points
QueryPoints(st, qv, limit, tie) ==
  LET top == TopK(st, qv, tie, DOMAIN st, limit)
  IN [k \in 1..Len(top) |->
        [id |-> top[k], payload |-> st[top[k]].payload,
         score |-> Score(qv, st[top[k]].vector)]]

(***************************************************************************)
(* Payloads written by the handlers                                        *)
(***************************************************************************)
PrescriptionPayload(modality, extracted_text, now) ==
  [type |-> "prescription", modality |-> modality,
   content |-> extracted_text, uploaded_at |-> DateTimeIso(now)]

ReportPayload(extracted_text, now) ==
  [type |-> "report", modality |-> "image",
   content |-> extracted_text, uploaded_at |-> DateTimeIso(now)]

VitalsPayload(metric, text, today) ==
  [type |-> "vitals", metric |-> metric, content |-> text, date |-> today]

VaccinationPayload(child_name, vaccine_name, age_months, vaccination_date, text) ==
  [type |-> "vaccination", child_name |-> child_name, vaccine |-> vaccine_name,
   age_months |-> age_months, date |-> vaccination_date, content |-> text]

\* f"Weight recorded: {weight} kg on {today}"
WeightText(weight, today) ==
  <<"W","e","i","g","h","t"," ","r","e","c","o","r","d","e","d",":"," ">>
    \o FloatStr(weight) \o <<" ","k","g"," ","o","n"," ">> \o today

\* f"Height recorded: {height} cm on {today}"
HeightText(height, today) ==
  <<"H","e","i","g","h","t"," ","r","e","c","o","r","d","e","d",":"," ">>
    \o FloatStr(height) \o <<" ","c","m"," ","o","n"," ">> \o today

\* f"Blood Pressure recorded: {blood_pressure} on {today}"
BpText(blood_pressure, today) ==
  <<"B","l","o","o","d"," ","P","r","e","s","s","u","r","e"," ",
    "r","e","c","o","r","d","e","d",":"," ">>
    \o blood_pressure \o <<" ","o","n"," ">> \o today

\* f"Child {child_name} received {vaccine_name} vaccine at age {age_months} months on {vaccination_date}"
VaccinationText(child_name, vaccine_name, age_months, vaccination_date) ==
  <<"C","h","i","l","d"," ">> \o child_name \o <<" ","r","e","c","e","i","v","e","d"," ">>
    \o vaccine_name \o <<" ","v","a","c","c","i","n","e"," ","a","t"," ","a","g","e"," ">>
    \o IntStr(age_months) \o <<" ","m","o","n","t","h","s"," ","o","n"," ">>
    \o vaccination_date

\* an optional query parameter: <<>> is None, <<v>> is the value v
\* Python truth of an optional float: None and 0.0 are false
TruthyFloat(opt) == opt # <<>> /\ opt[1] # 0

\* Python truth of an optional str: None and "" are false
TruthyStr(opt) == opt # <<>> /\ opt[1] # <<>>

\* the entries list add_vitals builds
Entries(weight, height, blood_pressure, today) ==
  (IF TruthyFloat(weight)
     THEN <<[metric |-> "weight", text |-> WeightText(weight[1], today)]>> ELSE <<>>)
  \o (IF TruthyFloat(height)
     THEN <<[metric |-> "height", text |-> HeightText(height[1], today)]>> ELSE <<>>)
  \o (IF TruthyStr(blood_pressure)
     THEN <<[metric |-> "bp", text |-> BpText(blood_pressure[1], today)]>> ELSE <<>>)

\* the loop of upload_prescription over reader.pages
RECURSIVE ExtractPdf(_)
ExtractPdf(pages) ==
  IF pages = <<>> THEN <<>>
  ELSE (IF Head(pages) # <<>> THEN Head(pages) ELSE <<>>) \o ExtractPdf(Tail(pages))

\* a variant that returns the items in the order the store gave them
SortedByDateAsScanned(items) == items

\* sorted(items, key=lambda x: x["date"]): ascending by date string, and stable
\* (items with equal dates keep their order); place[i] is where items[i] lands
\* (the concatenation makes place a tuple, computed once)
SortedByDate(items) ==
  LET n == Len(items)
      place == [i \in 1..n |->
                  Cardinality({j \in 1..n : StrLess(items[j].date, items[i].date)})
                  + Cardinality({j \in 1..i : items[j].date = items[i].date})] \o <<>>
  IN [k \in 1..n |-> items[CHOOSE i \in 1..n : place[i] = k]]

(***************************************************************************)
(* Inputs                                                                  *)
(***************************************************************************)
\* readings of datetime.now(); the wall clock may step backwards between calls
Feb01Morning == [year |-> 2024, month |-> 2, day |-> 1, hour |-> 9]
Jan31Night == [year |-> 2024, month |-> 1, day |-> 31, hour |-> 23]

Clock == {Feb01Morning, Jan31Night}

Filenames ==
  { <<"r","x",".","P","D","F">>,
    <<"s","c","a","n",".","p","n","g">>,
    <<"s","c","a","n",".","J","p","g">>,
    <<"s","c","a","n",".","j","p","e","g">>,
    <<"n","o","t","e","s",".","t","x","t">> }

\* an uploaded file: what PdfReader finds in it and what Image.open / OCR find in it
PdfRx == [kind |-> "pdf", pages |-> << <<"R">>, <<>>, <<"x">> >>, ocr |-> <<>>]
PdfBlank == [kind |-> "pdf", pages |-> << <<" ", "\n">>, <<"\t">> >>, ocr |-> <<>>]
PdfNoPages == [kind |-> "pdf", pages |-> <<>>, ocr |-> <<>>]
Scan == [kind |-> "image", pages |-> <<>>, ocr |-> <<"H","b"," ","1","2","\n">>]
ScanBlank == [kind |-> "image", pages |-> <<>>, ocr |-> <<" ", "\n">>]
Junk == [kind |-> "junk", pages |-> <<>>, ocr |-> <<>>]

Files == {PdfRx, PdfBlank, PdfNoPages, Scan, ScanBlank, Junk}

Weights == { <<>>, <<0>>, <<705>> }
Heights == { <<>>, <<1700>> }
BloodPressures == { <<>>, << <<>> >>, << <<"1","2","0","/","8","0">> >> }

Asha == <<"A","s","h","a">>
BCG == <<"B","C","G">>
Jan31 == <<"2","0","2","4","-","0","1","-","3","1">>
Feb01 == <<"2","0","2","4","-","0","2","-","0","1">>
Feb30 == <<"2","0","2","4","-","0","2","-","3","0">>
Bad == <<"b","a","d">>

\* (dob, vaccination_date) pairs of the main specification
VacArgs == { <<Jan31, Feb01>>, <<Bad, Feb01>>, <<Jan31, Feb30>> }

Questions == { <<"w","e","i","g","h","t">>, <<"R","x">> }

Faults == {"none", "encode", "store"}

(***************************************************************************)
(* Initial collections                                                     *)
(***************************************************************************)
EmptyStore == << >>

BigN == LIST_LIMIT + 1

LongText == [i \in 1..(PREVIEW_LEN + 1) |-> IF i % 2 = 1 THEN "R" ELSE "x"]

BigDay(i) == [year |-> 2024, month |-> 1 + (i % 3), day |-> 1 + ((7 * i) % 28), hour |-> i % 24]

\* a collection left by earlier runs: BigN points, every other one a weight record
BigPayload(i) ==
  IF i % 2 = 1
    THEN VitalsPayload("weight", WeightText(600 + i, IsoFormat(BigDay(i))), IsoFormat(BigDay(i)))
  ELSE IF i = 2 THEN PrescriptionPayload("pdf", LongText, BigDay(i))
  ELSE IF i % 4 = 0 THEN ReportPayload(Scan.ocr, BigDay(i))
  ELSE IF i % 8 = 6
    THEN VaccinationPayload(Asha, BCG, 1, Feb01, VaccinationText(Asha, BCG, 1, Feb01))
  ELSE VitalsPayload("height", HeightText(1700, IsoFormat(BigDay(i))), IsoFormat(BigDay(i)))

BigStore ==
  [id \in {2 * i : i \in 1..BigN} |->
     [vector |-> Embed(BigPayload(id \div 2).content), payload |-> BigPayload(id \div 2)]]

FreeBig == {((80 * k - 39) % (2 * BigN)) : k \in 1..MaxBigIds}

IdleVitals ==
  [pc |-> "idle", weight |-> <<>>, height |-> <<>>, blood_pressure |-> <<>>,
   today |-> <<>>, entries |-> <<>>, ids |-> <<>>]

(***************************************************************************)
(* Responses                                                               *)
(***************************************************************************)
\* resp is the outcome of the latest handler step: the handler (op), how the
\* step ended (kind), the payload returned (body) and the locals of the call at
\* that point (call)
Ok(op, body, call) == [op |-> op, kind |-> "ok", body |-> body, call |-> call]

ErrorPayload(op, message, call) ==
  [op |-> op, kind |-> "error", body |-> [error |-> message], call |-> call]

\* an exception that leaves the handler: the framework answers 500
Uncaught(op, exception, call) ==
  [op |-> op, kind |-> "uncaught", body |-> [exception |-> exception], call |-> call]

\* the handler has not returned yet
Pending(op, call) ==
  [op |-> op, kind |-> "pending", body |-> [status |-> "running"], call |-> call]

Started == Ok("startup_event", [status |-> "OK"], [ids |-> <<>>])

FaultMessage(fault) == IF fault = "encode" THEN "encode failed" ELSE "store call failed"

(***************************************************************************)
(* Initial states                                                          *)
(***************************************************************************)
\* startup_event creates the collection when it is absent: an empty collection
Init ==
  /\ store = EmptyStore
  /\ free = 1..MaxIds
  /\ vit = IdleVitals
  /\ resp = Started

InitVitals ==
  /\ store = EmptyStore
  /\ free = 1..MaxVitalIds
  /\ vit = IdleVitals
  /\ resp = Started

\* a run of SpecAge stores one vaccination
InitAge ==
  /\ store = EmptyStore
  /\ free = {1}
  /\ vit = IdleVitals
  /\ resp = Started

\* startup_event leaves an existing collection as it is: the process starts on a
\* new collection or on the points of earlier runs
InitRead ==
  /\ \/ store = EmptyStore /\ free = 1..MaxIds
     \/ store = BigStore /\ free = FreeBig
  /\ vit = IdleVitals
  /\ resp = Started

(***************************************************************************)
(* upload_prescription and upload_report                                   *)
(***************************************************************************)
\* filename.endswith(".pdf")
IsPdfName(filename) == EndsWith(filename, <<".","p","d","f">>)

\* a variant that takes every name that is not a .pdf for an image
IsImageNameDefault(filename) == ~EndsWith(filename, <<".","p","d","f">>)

\* filename.endswith((".png", ".jpg", ".jpeg"))
IsImageName(filename) ==
  \/ EndsWith(filename, <<".","p","n","g">>)
  \/ EndsWith(filename, <<".","j","p","g">>)
  \/ EndsWith(filename, <<".","j","p","e","g">>)

\* a variant that tests the text without strip()
IsBlankUnstripped(extracted_text) == extracted_text = <<>>

\* not extracted_text.strip()
IsBlank(extracted_text) == Strip(extracted_text) = <<>>

\* Image.open(file.file).convert("RGB"); pytesseract.image_to_string(image)
ReadImage(file) ==
  IF file.kind = "image"
    THEN [outcome |-> "text", modality |-> "image", text |-> file.ocr]
    ELSE [outcome |-> "Exception", modality |-> None, text |-> <<>>]

\* the dispatch of upload_prescription on the lower-cased file name
ReadPrescription(name, file) ==
  LET filename == Lower(name)
  IN IF IsPdfName(filename)
       THEN IF file.kind = "pdf"
              THEN [outcome |-> "text", modality |-> "pdf", text |-> ExtractPdf(file.pages)]
              ELSE [outcome |-> "PdfReadError", modality |-> None, text |-> <<>>]
     ELSE IF IsImageName(filename) THEN ReadImage(file)
     ELSE [outcome |-> "unsupported", modality |-> None, text |-> <<>>]

\* the locals of an upload call: the file name and the kind of the file given,
\* the text extracted, the ids generated
UploadCall(name, file, r, ids) ==
  [name |-> name, file |-> file.kind, outcome |-> r.outcome,
   extracted_text |-> r.text, ids |-> ids]

upload_prescription(name, file, now, fault) ==
  LET r == ReadPrescription(name, file)
      op == "upload_prescription"
      call == UploadCall(name, file, r, <<>>)
  IN /\ UNCHANGED vit
     /\ IF r.outcome = "unsupported"
          THEN resp' = ErrorPayload(op, "Unsupported file type", call)
               /\ UNCHANGED <<store, free>>
        ELSE IF r.outcome = "PdfReadError"
          THEN resp' = ErrorPayload(op, "Invalid or corrupted PDF", call)
               /\ UNCHANGED <<store, free>>
        ELSE IF r.outcome = "Exception"
          THEN resp' = ErrorPayload(op, "cannot identify image file", call)
               /\ UNCHANGED <<store, free>>
        ELSE IF IsBlank(r.text)
          THEN resp' = ErrorPayload(op, "No readable text found", call)
               /\ UNCHANGED <<store, free>>
        ELSE IF fault # "none"
          THEN resp' = ErrorPayload(op, FaultMessage(fault), call)
               /\ UNCHANGED <<store, free>>
        ELSE \E id \in Uuid4 :
               /\ store' = Upsert(store, id, Embed(r.text),
                                  PrescriptionPayload(r.modality, r.text, now))
               /\ free' = free \ {id}
               /\ resp' = Ok(op, [status |-> "Prescription stored successfully",
                                  modality |-> r.modality,
                                  characters_saved |-> Len(r.text)],
                             UploadCall(name, file, r, <<id>>))

\* "" is the file name: upload_report does not look at it
upload_report(file, now, fault) ==
  LET r == ReadImage(file)
      op == "upload_report"
      call == UploadCall(<<>>, file, r, <<>>)
  IN /\ UNCHANGED vit
     /\ IF r.outcome = "Exception"
          THEN resp' = ErrorPayload(op, "cannot identify image file", call)
               /\ UNCHANGED <<store, free>>
        ELSE IF IsBlank(r.text)
          THEN resp' = ErrorPayload(op, "No readable text found in image", call)
               /\ UNCHANGED <<store, free>>
        ELSE IF fault # "none"
          THEN resp' = ErrorPayload(op, FaultMessage(fault), call)
               /\ UNCHANGED <<store, free>>
        ELSE \E id \in Uuid4 :
               /\ store' = Upsert(store, id, Embed(r.text), ReportPayload(r.text, now))
               /\ free' = free \ {id}
               /\ resp' = Ok(op, [status |-> "Report stored successfully"],
                             UploadCall(<<>>, file, r, <<id>>))

(***************************************************************************)
(* add_vitals: one step per store call of its loop                         *)
(***************************************************************************)
\* the call is received: today and the entries list are computed
add_vitals(weight, height, blood_pressure, now) ==
  /\ vit.pc = "idle"
  /\ vit' = [pc |-> "run", weight |-> weight, height |-> height,
             blood_pressure |-> blood_pressure, today |-> IsoFormat(now),
             entries |-> Entries(weight, height, blood_pressure, IsoFormat(now)),
             ids |-> <<>>]
  /\ resp' = Pending("add_vitals", vit')
  /\ UNCHANGED <<store, free>>

\* one iteration of the loop: encode and upsert the next entry
add_vitals_upsert ==
  /\ vit.pc = "run"
  /\ Len(vit.ids) < Len(vit.entries)
  /\ LET e == vit.entries[Len(vit.ids) + 1]
     IN \E id \in Uuid4 :
          /\ store' = Upsert(store, id, Embed(e.text),
                             VitalsPayload(e.metric, e.text, vit.today))
          /\ free' = free \ {id}
          /\ vit' = [vit EXCEPT !.ids = Append(@, id)]
  /\ resp' = Pending("add_vitals", vit')

\* a variant that removes the records of the call when an iteration raises
add_vitals_raise_undo(fault) ==
  /\ vit.pc = "run"
  /\ Len(vit.ids) < Len(vit.entries)
  /\ vit' = IdleVitals
  /\ resp' = Uncaught("add_vitals", FaultMessage(fault), vit)
  /\ store' = [id \in DOMAIN store \ {vit.ids[i] : i \in 1..Len(vit.ids)} |-> store[id]]
  /\ free' = free

\* one iteration of the loop in which encode or upsert raises: nothing in
\* add_vitals catches it, the call ends there
add_vitals_raise(fault) ==
  /\ vit.pc = "run"
  /\ Len(vit.ids) < Len(vit.entries)
  /\ vit' = IdleVitals
  /\ resp' = Uncaught("add_vitals", FaultMessage(fault), vit)
  /\ UNCHANGED <<store, free>>

\* the loop is over: the status is returned
add_vitals_return ==
  /\ vit.pc = "run"
  /\ Len(vit.ids) = Len(vit.entries)
  /\ vit' = IdleVitals
  /\ resp' = Ok("add_vitals", [status |-> "Vitals stored as long-term memory"], vit)
  /\ UNCHANGED <<store, free>>

(***************************************************************************)
(* add_vaccination                                                         *)
(***************************************************************************)
VaccinationCall(dob, vaccination_date, ids) ==
  [dob |-> dob, vaccination_date |-> vaccination_date, ids |-> ids]

add_vaccination(child_name, dob, vaccine_name, vaccination_date, fault) ==
  LET op == "add_vaccination"
      dob_date == FromIsoFormat(dob)
      vac_date == FromIsoFormat(vaccination_date)
      age_months == AgeMonths(dob_date, vac_date)
      text == VaccinationText(child_name, vaccine_name, age_months, vaccination_date)
      call == VaccinationCall(dob, vaccination_date, <<>>)
  IN /\ UNCHANGED vit
     /\ IF ~dob_date.ok \/ ~vac_date.ok
          THEN resp' = ErrorPayload(op, "Invalid isoformat string", call)
               /\ UNCHANGED <<store, free>>
        ELSE IF fault # "none"
          THEN resp' = ErrorPayload(op, FaultMessage(fault), call)
               /\ UNCHANGED <<store, free>>
        ELSE \E id \in Uuid4 :
               /\ store' = Upsert(store, id, Embed(text),
                                  VaccinationPayload(child_name, vaccine_name,
                                                     age_months, vaccination_date, text))
               /\ free' = free \ {id}
               /\ resp' = Ok(op, [status |-> "Vaccination recorded", child |-> child_name,
                                  vaccine |-> vaccine_name, age_months |-> age_months],
                             VaccinationCall(dob, vaccination_date, <<id>>))

(***************************************************************************)
(* weight_trend, ask_question, get_all_memory                              *)
(***************************************************************************)
\* [{"date": p.payload["date"], "record": p.payload["content"]} for p in points]
History(points) ==
  SortedByDate([i \in 1..Len(points) |->
                  [date |-> points[i].payload["date"],
                   record |-> points[i].payload["content"]]] \o <<>>)

weight_trend(fault) ==
  LET op == "weight_trend"
      points == ScrollWeight(store, TREND_LIMIT)
      call == [ids |-> <<>>]
  IN /\ UNCHANGED <<store, free, vit>>
     /\ IF fault # "none" THEN resp' = Uncaught(op, FaultMessage(fault), call)
        ELSE IF points = <<>>
          THEN resp' = Ok(op, [message |-> "No weight records found"], call)
        ELSE resp' = Ok(op, [metric |-> "weight", history |-> History(points),
                             insight |-> "Retrieved from long-term personal health memory"],
                        call)

\* a variant that drops a point whose content an earlier point already has
RetrievedDistinct(points) ==
  LET First(i) == \A j \in 1..(i - 1) :
                    Get(points[j].payload, "content") # Get(points[i].payload, "content")
      kept == SelectSeq([i \in 1..Len(points) |-> i], First)
  IN [k \in 1..Len(kept) |->
        [type |-> Get(points[kept[k]].payload, "type"),
         modality |-> Get(points[kept[k]].payload, "modality"),
         content |-> Get(points[kept[k]].payload, "content"),
         score |-> points[kept[k]].score]]

\* [{type, modality, content, score} for p in result.points]
Retrieved(points) ==
  [i \in 1..Len(points) |->
     [type |-> Get(points[i].payload, "type"),
      modality |-> Get(points[i].payload, "modality"),
      content |-> Get(points[i].payload, "content"),
      score |-> points[i].score]]

ask_question(question, fault, tie) ==
  LET op == "ask_question"
      points == QueryPoints(store, Embed(question), QUERY_LIMIT, tie)
      call == [question |-> question, ids |-> <<>>]
  IN /\ UNCHANGED <<store, free, vit>>
     /\ IF fault # "none" THEN resp' = Uncaught(op, FaultMessage(fault), call)
        ELSE IF points = <<>>
          THEN resp' = Ok(op, [question |-> question,
                               answer |-> "No relevant records found"], call)
        ELSE resp' = Ok(op, [question |-> question, retrieved_records |-> Retrieved(points),
                             explanation |-> "Results retrieved using semantic vector similarity from stored health memory"],
                        call)

\* a variant that cuts one character short
PreviewShort(content) == Slice(content, PREVIEW_LEN - 1)

\* p.payload.get("content")[:200]
Preview(content) == Slice(content, PREVIEW_LEN)

\* the records list of get_all_memory
Listing(points) ==
  [i \in 1..Len(points) |->
     [id |-> points[i].id,
      type |-> Get(points[i].payload, "type"),
      modality |-> Get(points[i].payload, "modality"),
      preview |-> Preview(Get(points[i].payload, "content"))]]

get_all_memory(fault) ==
  LET op == "get_all_memory"
      points == Scroll(store, LIST_LIMIT)
      call == [ids |-> <<>>]
  IN /\ UNCHANGED <<store, free, vit>>
     /\ IF fault # "none" THEN resp' = Uncaught(op, FaultMessage(fault), call)
        ELSE resp' = Ok(op, [total_records |-> Len(points), records |-> Listing(points)],
                        call)

(***************************************************************************)
(* Specifications                                                          *)
(***************************************************************************)
RxPdfName == <<"r","x",".","P","D","F">>
ScanJpegName == <<"s","c","a","n",".","j","p","e","g">>
Kg705 == <<705>>
Cm1700 == <<1700>>

\* every handler, with faults, on few inputs
Next ==
  \/ \E fault \in Faults :
       \/ upload_prescription(RxPdfName, PdfRx, Feb01Morning, fault)
       \/ upload_prescription(ScanJpegName, Scan, Feb01Morning, fault)
  \/ \E fault \in Faults : upload_report(Scan, Feb01Morning, fault)
  \/ \E height \in {<<>>, Cm1700} : add_vitals(Kg705, height, <<>>, Feb01Morning)
  \/ add_vitals_upsert
  \/ \E fault \in Faults \ {"none"} : add_vitals_raise(fault)
  \/ add_vitals_return
  \/ \E fault \in Faults : add_vaccination(Asha, Jan31, BCG, Feb01, fault)
  \/ \E fault \in {"none", "store"} : weight_trend(fault)
  \/ \E question \in Questions, fault \in Faults, tie \in {1, -1} :
       ask_question(question, fault, tie)
  \/ \E fault \in {"none", "store"} : get_all_memory(fault)

Spec == Init /\ [][Next]_vars

\* the three readers and one write of each kind, without faults
NextRead ==
  \/ upload_prescription(RxPdfName, PdfRx, Feb01Morning, "none")
  \/ upload_report(Scan, Feb01Morning, "none")
  \/ \E now \in Clock : add_vitals(Kg705, <<>>, <<>>, now)
  \/ add_vitals_upsert
  \/ add_vitals_return
  \/ add_vaccination(Asha, Jan31, BCG, Feb01, "none")
  \/ weight_trend("none")
  \/ \E question \in Questions, tie \in {1, -1} : ask_question(question, "none", tie)
  \/ get_all_memory("none")

SpecRead == InitRead /\ [][NextRead]_vars

\* the write handlers that read documents and dates, on many inputs; encode or
\* the store fails in calls whose input reaches them
NextIngest ==
  \/ \E name \in Filenames, file \in Files :
       upload_prescription(name, file, Feb01Morning, "none")
  \/ \E fault \in Faults \ {"none"} :
       \/ upload_prescription(RxPdfName, PdfRx, Feb01Morning, fault)
       \/ upload_prescription(ScanJpegName, Scan, Feb01Morning, fault)
  \/ \E file \in Files : upload_report(file, Feb01Morning, "none")
  \/ \E fault \in Faults \ {"none"} : upload_report(Scan, Feb01Morning, fault)
  \/ \E args \in VacArgs : add_vaccination(Asha, args[1], BCG, args[2], "none")
  \/ \E fault \in Faults \ {"none"} : add_vaccination(Asha, Jan31, BCG, Feb01, fault)

SpecIngest == Init /\ [][NextIngest]_vars

\* add_vitals on many inputs, and the reader of what it writes
NextVitals ==
  \/ \E weight \in Weights, height \in Heights, blood_pressure \in BloodPressures :
       add_vitals(weight, height, blood_pressure, Feb01Morning)
  \/ add_vitals_upsert
  \/ \E fault \in Faults \ {"none"} : add_vitals_raise(fault)
  \/ add_vitals_return
  \/ \E fault \in {"none", "store"} : weight_trend(fault)

SpecVitals == InitVitals /\ [][NextVitals]_vars

\* the calendar dates of the years MinYear..MaxYear in four months, as text
AgeDates ==
  { IsoFormat(d) :
      d \in { c \in [year : MinYear..MaxYear, month : {1, 2, 3, 6}, day : {1, 15, 28, 31}] :
                c.day <= DaysInMonth(c.year, c.month) } }

\* add_vaccination on many pairs of dates
NextAge ==
  \E dob \in AgeDates, vaccination_date \in AgeDates :
    add_vaccination(Asha, dob, BCG, vaccination_date, "none")

SpecAge == InitAge /\ [][NextAge]_vars

(***************************************************************************)
(* Properties                                                              *)
(***************************************************************************)
Min(a, b) == IF a < b THEN a ELSE b

\* every character of t is whitespace (so is the empty text)
AllSpace(t) == \A i \in 1..Len(t) : t[i] \in {" ", "\t", "\n"}

Added == DOMAIN store' \ DOMAIN store

UploadOps == {"upload_prescription", "upload_report"}

ReadOps == {"ask_question", "weight_trend", "get_all_memory"}

\* C1: an upload whose extracted text is empty or only whitespace ends with the
\* empty-extraction error payload and leaves the store as it was; every record
\* an upload adds has content that is not only whitespace.
C1_EmptyExtractionRejected ==
  [][ /\ ( /\ resp'.op \in UploadOps
           /\ resp'.call.outcome = "text"
           /\ AllSpace(resp'.call.extracted_text) )
         => /\ store' = store
            /\ resp'.kind = "error"
            /\ resp'.body.error = ( IF resp'.op = "upload_prescription"
                                      THEN "No readable text found"
                                      ELSE "No readable text found in image" )
      /\ \A id \in Added :
           store'[id].payload.type \in {"prescription", "report"}
             => ~AllSpace(store'[id].payload.content) ]_vars

\* an upload of a document with whitespace-only text was refused while the
\* collection held a record
C1_Witness ==
  /\ resp.op \in UploadOps
  /\ resp.kind = "error"
  /\ resp.call.outcome = "text"
  /\ Len(resp.call.extracted_text) > 0
  /\ AllSpace(resp.call.extracted_text)
  /\ DOMAIN store # {}

Supplied(opt) == opt # <<>>

CountSupplied(call) ==
  (IF Supplied(call.weight) THEN 1 ELSE 0) + (IF Supplied(call.height) THEN 1 ELSE 0)
    + (IF Supplied(call.blood_pressure) THEN 1 ELSE 0)

\* the records a finished add_vitals call wrote under the given metric
WrittenAs(call, metric) ==
  { i \in 1..Len(call.ids) :
      /\ call.ids[i] \in DOMAIN store
      /\ store[call.ids[i]].payload.type = "vitals"
      /\ store[call.ids[i]].payload.metric = metric
      /\ store[call.ids[i]].payload.date = call.today }

\* C2: an add_vitals call in which no insert fails writes as many records as
\* inputs were supplied: one vitals record with the matching metric and the
\* date of the call for each supplied value, none for an absent one.
C2_OneRecordPerSuppliedValue ==
  (resp.op = "add_vitals" /\ resp.kind = "ok") =>
    /\ Len(resp.call.ids) = CountSupplied(resp.call)
    /\ Cardinality(WrittenAs(resp.call, "weight"))
         = (IF Supplied(resp.call.weight) THEN 1 ELSE 0)
    /\ Cardinality(WrittenAs(resp.call, "height"))
         = (IF Supplied(resp.call.height) THEN 1 ELSE 0)
    /\ Cardinality(WrittenAs(resp.call, "bp"))
         = (IF Supplied(resp.call.blood_pressure) THEN 1 ELSE 0)

\* C3: in every handler a failure of the embedding call or of the store call
\* is caught and answered with an error payload; none leaves the handler.
C3_NoFailureEscapes == resp.kind # "uncaught"

\* C4: the store is append-only: no step changes or removes a record, a step
\* adds at most one record, a successful write adds exactly one record under
\* an id no record carried, and the readers leave the store unchanged.
C4_AppendOnly ==
  [][ /\ \A id \in DOMAIN store : id \in DOMAIN store' /\ store'[id] = store[id]
      /\ Cardinality(Added) <= 1
      /\ (resp'.kind = "ok" /\ resp'.op \in UploadOps \cup {"add_vaccination"})
           => Added = {resp'.call.ids[1]}
      /\ (vit.pc = "run" /\ vit'.pc = "run" /\ Len(vit'.ids) = Len(vit.ids) + 1)
           => Added = {vit'.ids[Len(vit'.ids)]}
      /\ resp'.op \in ReadOps => store' = store ]_vars

\* two records of the same content stand side by side
C4_Witness ==
  \E a \in DOMAIN store, b \in DOMAIN store :
    /\ a # b
    /\ store[a].payload.content = store[b].payload.content
    /\ store[a].payload.type = store[b].payload.type

\* C5: when an insert of an add_vitals call fails, the inserts the call made
\* before it stay in the store, the failing step changes nothing in the store,
\* and the call makes no further insert.
C5_NoRollback ==
  [][ (resp'.op = "add_vitals" /\ resp'.kind = "uncaught") =>
        /\ store' = store
        /\ vit'.pc = "idle"
        /\ Len(resp'.call.ids) < Len(resp'.call.entries)
        /\ \A i \in 1..Len(resp'.call.ids) :
             /\ resp'.call.ids[i] \in DOMAIN store'
             /\ store'[resp'.call.ids[i]].payload
                  = VitalsPayload(resp'.call.entries[i].metric,
                                  resp'.call.entries[i].text, resp'.call.today) ]_vars

\* the second of three inserts failed and the first record is in the store
C5_Witness ==
  /\ resp.op = "add_vitals"
  /\ resp.kind = "uncaught"
  /\ Len(resp.call.entries) = 3
  /\ Len(resp.call.ids) = 1
  /\ resp.call.ids[1] \in DOMAIN store

WeightIds ==
  { id \in DOMAIN store :
      store[id].payload.type = "vitals" /\ store[id].payload.metric = "weight" }

\* C6: weight_trend answers with the 'No weight records found' message and no
\* history when the store holds no weight record; otherwise with a history of
\* min(50, number of weight records) entries, each the date and content of a
\* weight record of the store (no record used twice), in non-decreasing order
\* of the date strings.
C6_WeightTrendSorted ==
  (resp.op = "weight_trend" /\ resp.kind = "ok") =>
    IF WeightIds = {}
      THEN resp.body = [message |-> "No weight records found"]
      ELSE /\ DOMAIN resp.body = {"metric", "history", "insight"}
           /\ resp.body.metric = "weight"
           /\ Len(resp.body.history) = Min(Cardinality(WeightIds), 50)
           /\ \A i \in 1..(Len(resp.body.history) - 1) :
                ~StrLess(resp.body.history[i + 1].date, resp.body.history[i].date)
           /\ \A i \in 1..Len(resp.body.history) :
                Cardinality({j \in 1..Len(resp.body.history) :
                               resp.body.history[j] = resp.body.history[i]})
                  <= Cardinality({id \in WeightIds :
                       /\ store[id].payload.date = resp.body.history[i].date
                       /\ store[id].payload.content = resp.body.history[i].record})

\* a history cut at 50 entries, from a store of more weight records whose scan
\* order is not the order of their dates
C6_Witness ==
  /\ resp.op = "weight_trend"
  /\ resp.kind = "ok"
  /\ Cardinality(WeightIds) > 50
  /\ Len(resp.body.history) = 50
  /\ \E a \in WeightIds, b \in WeightIds :
       a < b /\ StrLess(store[b].payload.date, store[a].payload.date)

Jan15 == <<"2","0","2","4","-","0","1","-","1","5">>
Mar15 == <<"2","0","2","4","-","0","3","-","1","5">>
Jun01of2023 == <<"2","0","2","3","-","0","6","-","0","1">>
Jun01of2024 == <<"2","0","2","4","-","0","6","-","0","1">>

\* the year and the month written in a YYYY-MM-DD text
YearOf(s) == 1000 * DigitVal(s[1]) + 100 * DigitVal(s[2]) + 10 * DigitVal(s[3]) + DigitVal(s[4])

MonthOf(s) == 10 * DigitVal(s[6]) + DigitVal(s[7])

\* C7: for parseable dates add_vaccination answers, stores and writes into the
\* content sentence age_months = (vac.year - dob.year) * 12 + (vac.month -
\* dob.month), whatever the days of the month: 2 for (2024-01-15, 2024-03-15),
\* 12 for (2023-06-01, 2024-06-01), 1 for (2024-01-31, 2024-02-01).
C7_AgeInMonths ==
  (resp.op = "add_vaccination" /\ resp.kind = "ok") =>
    LET dob == resp.call.dob
        vac == resp.call.vaccination_date
        age == (YearOf(vac) - YearOf(dob)) * 12 + (MonthOf(vac) - MonthOf(dob))
        written == store[resp.call.ids[1]].payload
    IN /\ resp.body.age_months = age
       /\ written.type = "vaccination"
       /\ written.age_months = age
       /\ written.content
            = <<"C","h","i","l","d"," ">> \o written.child_name
                \o <<" ","r","e","c","e","i","v","e","d"," ">> \o written.vaccine
                \o <<" ","v","a","c","c","i","n","e"," ","a","t"," ","a","g","e"," ">>
                \o IntStr(age) \o <<" ","m","o","n","t","h","s"," ","o","n"," ">> \o vac
       /\ (dob = Jan15 /\ vac = Mar15) => resp.body.age_months = 2
       /\ (dob = Jun01of2023 /\ vac = Jun01of2024) => resp.body.age_months = 12
       /\ (dob = Jan31 /\ vac = Feb01) => resp.body.age_months = 1

\* a vaccination one day after a birth on January 31 is recorded at one month
C7_Witness ==
  /\ resp.op = "add_vaccination"
  /\ resp.kind = "ok"
  /\ resp.call.dob = Jan31
  /\ resp.call.vaccination_date = Feb01
  /\ resp.body.age_months = 1
  /\ store[resp.call.ids[1]].payload.age_months = 1

\* the score the store gives a point for the question of the latest call
ScoreOf(id) == Score(Embed(resp.call.question), store[id].vector)

\* the points of the store an entry of retrieved_records can come from
SourcesOf(e) ==
  { id \in DOMAIN store :
      /\ ScoreOf(id) = e.score
      /\ store[id].payload.type = e.type
      /\ Get(store[id].payload, "modality") = e.modality
      /\ store[id].payload.content = e.content }

\* C8: on an empty store ask_question answers 'No relevant records found'
\* and no list; otherwise it returns min(5, number of points) entries
\* {type, modality, content, score}, best score first, each a point of the
\* store with the score the store gives it (no point twice), and every point
\* scoring above the last entry is among them.
C8_AskReturnsTopFive ==
  (resp.op = "ask_question" /\ resp.kind = "ok") =>
    IF DOMAIN store = {}
      THEN resp.body = [question |-> resp.call.question,
                        answer |-> "No relevant records found"]
      ELSE /\ DOMAIN resp.body = {"question", "retrieved_records", "explanation"}
           /\ LET r == resp.body.retrieved_records
              IN /\ Len(r) = Min(Cardinality(DOMAIN store), 5)
                 /\ \A i \in 1..Len(r) : DOMAIN r[i] = {"type", "modality", "content", "score"}
                 /\ \A i \in 1..(Len(r) - 1) : r[i].score >= r[i + 1].score
                 /\ \A i \in 1..Len(r) :
                      Cardinality({j \in 1..Len(r) : r[j] = r[i]})
                        <= Cardinality(SourcesOf(r[i]))
                 /\ \A id \in DOMAIN store :
                      ScoreOf(id) > r[Len(r)].score
                        => Cardinality({j \in 1..Len(r) : r[j].score = ScoreOf(id)})
                             = Cardinality({x \in DOMAIN store : ScoreOf(x) = ScoreOf(id)})

\* five records returned from a store of more than five, two of them with the
\* same content, and a point of the store scoring below the last one
C8_Witness ==
  /\ resp.op = "ask_question"
  /\ resp.kind = "ok"
  /\ Cardinality(DOMAIN store) > 5
  /\ Len(resp.body.retrieved_records) = 5
  /\ resp.body.retrieved_records[1].content = resp.body.retrieved_records[2].content
  /\ \E id \in DOMAIN store : ScoreOf(id) < resp.body.retrieved_records[5].score

\* C9: get_all_memory lists at most 100 entries and total_records is their
\* number; each entry carries the id, the type and the modality (None when the
\* record has none) of a record of the store, and its preview is the first
\* min(200, length) characters of that record's content.
C9_ListingRoundTrip ==
  (resp.op = "get_all_memory" /\ resp.kind = "ok") =>
    /\ resp.body.total_records = Len(resp.body.records)
    /\ Len(resp.body.records) <= 100
    /\ \A i \in 1..Len(resp.body.records) :
         LET e == resp.body.records[i]
         IN /\ e.id \in DOMAIN store
            /\ e.type = store[e.id].payload.type
            /\ e.modality = ( IF "modality" \in DOMAIN store[e.id].payload
                                THEN store[e.id].payload.modality ELSE None )
            /\ Len(e.preview) = Min(200, Len(store[e.id].payload.content))
            /\ \A k \in 1..Len(e.preview) : e.preview[k] = store[e.id].payload.content[k]

\* a listing cut at 100 entries, one of them the 200-character preview of a
\* longer content, others of the four record types
C9_Witness ==
  /\ resp.op = "get_all_memory"
  /\ resp.kind = "ok"
  /\ Cardinality(DOMAIN store) > 100
  /\ resp.body.total_records = 100
  /\ \E i \in 1..100 :
       /\ Len(resp.body.records[i].preview) = 200
       /\ Len(store[resp.body.records[i].id].payload.content) > 200
  /\ \A t \in {"prescription", "report", "vitals", "vaccination"} :
       \E i \in 1..100 : resp.body.records[i].type = t

SupportedSuffixes ==
  { <<".","p","d","f">>, <<".","p","n","g">>, <<".","j","p","g">>, <<".","j","p","e","g">> }

HasSupportedSuffix(name) == \E suf \in SupportedSuffixes : EndsWith(Lower(name), suf)

\* C10: upload_prescription with a file name of no supported suffix (in any
\* letter case) answers the unsupported-format error, with a .pdf name and a
\* file that is no PDF the corrupt-document error, add_vaccination with an
\* unparseable date an error payload; in each case the store is unchanged.
C10_RejectedInputKeepsStore ==
  [][ /\ (resp'.op = "upload_prescription" /\ ~HasSupportedSuffix(resp'.call.name))
           => /\ resp'.kind = "error"
              /\ resp'.body.error = "Unsupported file type"
              /\ store' = store
      /\ ( /\ resp'.op = "upload_prescription"
           /\ EndsWith(Lower(resp'.call.name), <<".","p","d","f">>)
           /\ resp'.call.file # "pdf" )
           => /\ resp'.kind = "error"
              /\ resp'.body.error = "Invalid or corrupted PDF"
              /\ store' = store
      /\ ( /\ resp'.op = "add_vaccination"
           /\ \/ ~FromIsoFormat(resp'.call.dob).ok
              \/ ~FromIsoFormat(resp'.call.vaccination_date).ok )
           => /\ resp'.kind = "error"
              /\ store' = store ]_vars

\* a file of an unsupported suffix that holds a readable image was refused
\* while the collection held a record
C10_Witness ==
  /\ resp.op = "upload_prescription"
  /\ ~HasSupportedSuffix(resp.call.name)
  /\ resp.call.file = "image"
  /\ resp.kind = "error"
  /\ resp.body.error = "Unsupported file type"
  /\ DOMAIN store # {}

====
